---- MODULE Spec2Model ----
(***************************************************************************)
(* Model of src/main.py: the cTrader Open API JSON client.  One session    *)
(* (stream_prices) runs the handshake 2100 -> 2149 -> 2102 -> 2114 ->      *)
(* 2127 over one websocket and then dispatches inbound events until the    *)
(* connection closes.  Every `await` of the coroutine is one action.       *)
(***************************************************************************)
EXTENDS Integers, Sequences, FiniteSets, TLC

(***************************************************************************)
(* JSON / Python values.  Every value carries its Python type so that      *)
(* dict.get (None when the key is absent), truthiness (`a or b`, `not a`)  *)
(* and `is None` can be computed as Python computes them.  Strings are     *)
(* sequences of one-character strings so that str.upper is computable.     *)
(***************************************************************************)
None == [t |-> "None"]

JInt(n) == [t |-> "int", v |-> n]

JBool(b) == [t |-> "bool", v |-> b]

JStr(s) == [t |-> "str", v |-> s]

JList(q) == [t |-> "list", v |-> q]

EmptyMap == [k \in {} |-> None]

JDict(f) == [t |-> "dict", v |-> f]

EmptyDict == JDict(EmptyMap)

\* isinstance(x, dict)
IsDict(x) == x.t = "dict"

\* d.get(k) on a dict d: the value, or None when the key is absent
Get(d, k) == IF k \in DOMAIN d.v THEN d.v[k] ELSE None

\* d.get(k, default)
GetOr(d, k, default) == IF k \in DOMAIN d.v THEN d.v[k] ELSE default

\* Python truth value of x
Truthy(x) ==
    CASE x.t = "None" -> FALSE
      [] x.t = "int"  -> x.v # 0
      [] x.t = "bool" -> x.v
      [] x.t = "str"  -> Len(x.v) > 0
      [] x.t = "list" -> Len(x.v) > 0
      [] x.t = "dict" -> DOMAIN x.v # {}

\* Python `a or b`
PyOr(a, b) == IF Truthy(a) THEN a ELSE b

\* len(x) of a list, a str or a dict
PyLen(x) == IF x.t = "dict" THEN Cardinality(DOMAIN x.v) ELSE Len(x.v)

(***************************************************************************)
(* Wire text.  A websocket text frame either is the JSON text of a value   *)
(* or is not JSON at all; json.loads raises JSONDecodeError on the latter. *)
(***************************************************************************)
JSONDecodeError == [t |-> "JSONDecodeError"]

NotJson == [ok |-> FALSE]

json_dumps(value) == [ok |-> TRUE, value |-> value]

json_loads(text) == IF text.ok THEN text.value ELSE JSONDecodeError

\* what `await ws.recv()` raises when the peer has closed the connection
ConnectionClosed == [closed |-> TRUE]

(***************************************************************************)
(* Settings (module globals of main.py).                                   *)
(***************************************************************************)
SYMBOL == <<"E", "U", "R", "U", "S", "D">>

Lower == <<"a", "b", "c", "d", "e", "f", "g", "h", "i", "j", "k", "l", "m",
           "n", "o", "p", "q", "r", "s", "t", "u", "v", "w", "x", "y", "z">>

Upper == <<"A", "B", "C", "D", "E", "F", "G", "H", "I", "J", "K", "L", "M",
           "N", "O", "P", "Q", "R", "S", "T", "U", "V", "W", "X", "Y", "Z">>

\* str.upper on one character
UpperChar(c) ==
    IF \E i \in 1..26 : Lower[i] = c
    THEN Upper[CHOOSE i \in 1..26 : Lower[i] = c]
    ELSE c

\* str.upper
upper(s) == [i \in 1..Len(s) |-> UpperChar(s[i])]

(***************************************************************************)
(* Message helpers (main.py 18-43).  uuid4 is modelled by a value that is  *)
(* fresh per request: the ordinal of the request on the connection.        *)
(***************************************************************************)
Digits == <<"1", "2", "3", "4", "5", "6", "7", "8", "9">>

uuid4(n) == JStr(<<"#", Digits[n]>>)

\* `client_msg_id or str(uuid.uuid4())`; uuid is the fresh value uuid4 returns
make_msg(payload_type, payload, client_msg_id, uuid) ==
    JDict([clientMsgId |-> PyOr(client_msg_id, uuid),
           payloadType |-> JInt(payload_type),
           payload     |-> JDict(payload)])

application_auth_req(client_id, client_secret, uuid) ==
    make_msg(2100, [clientId |-> JStr(client_id), clientSecret |-> JStr(client_secret)],
             None, uuid)

get_accounts_by_token_req(access_token, uuid) ==
    make_msg(2149, [accessToken |-> JStr(access_token)], None, uuid)

account_auth_req(ctid_trader_account_id, access_token, uuid) ==
    make_msg(2102, [ctidTraderAccountId |-> ctid_trader_account_id,
                    accessToken |-> JStr(access_token)], None, uuid)

symbols_list_req(ctid_trader_account_id, uuid) ==
    make_msg(2114, [ctidTraderAccountId |-> ctid_trader_account_id,
                    includeArchivedSymbols |-> JBool(FALSE)], None, uuid)

\* subscribe_spots_req with its two arguments in the wrong places
subscribe_spots_req_Swapped(ctid_trader_account_id, symbol_id, uuid) ==
    make_msg(2127, [ctidTraderAccountId |-> symbol_id,
                    symbolId |-> ctid_trader_account_id], None, uuid)

subscribe_spots_req(ctid_trader_account_id, symbol_id, uuid) ==
    make_msg(2127, [ctidTraderAccountId |-> ctid_trader_account_id,
                    symbolId |-> symbol_id], None, uuid)

(***************************************************************************)
(* Bounded inputs: what the counterpart may put on the connection.         *)
(***************************************************************************)
MaxAccounts == 2

MaxSymbols == 2

MaxStream == 3

Restrict(f, K) == [k \in K |-> f[k]]

SeqsUpTo(S, n) == UNION {[1..k -> S] : k \in 0..n}

Envelope(pt, payload) == JDict([payloadType |-> JInt(pt), payload |-> payload])

\* discriminants the counterpart may use: the four handshake responses, the
\* three streaming events, a request discriminant echoed back, an unknown one
PayloadTypes == {2101, 2150, 2103, 2115, 2142, 2131, 2128, 2102, 9999}

\* account descriptors: each id field absent or present, with value 0 or not
AccountEntries ==
    {JDict(Restrict([ctidTraderAccountId |-> JInt(a), accountId |-> JInt(b)], K)) :
        a \in {0, 7}, b \in {0, 8}, K \in SUBSET {"ctidTraderAccountId", "accountId"}}

AccountPayloads ==
    {JDict([k \in {f} |-> JList(q)]) :
        f \in {"traderAccounts", "ctidTraderAccount"},
        q \in SeqsUpTo(AccountEntries, MaxAccounts)}
    \cup
    {JDict([k \in {f} |-> e]) :
        f \in {"traderAccounts", "ctidTraderAccount"}, e \in AccountEntries}

eurusd == <<"e", "u", "r", "u", "s", "d">>

GBPJPY == <<"G", "B", "P", "J", "P", "Y">>

\* symbol descriptors: exact / case-insensitive matches of SYMBOL under each
\* of the name fields, a non-matching one, and a match without symbolId
Descriptors ==
    { JDict([symbolName |-> JStr(SYMBOL), symbolId |-> JInt(1)]),
      JDict([name |-> JStr(eurusd), symbolId |-> JInt(2)]),
      JDict([symbolName |-> JStr(GBPJPY), displayName |-> JStr(SYMBOL), symbolId |-> JInt(0)]),
      JDict([displayName |-> JStr(eurusd), symbolId |-> JInt(2)]),
      JDict([symbolName |-> JStr(GBPJPY), symbolId |-> JInt(1)]),
      JDict([name |-> JStr(SYMBOL)]) }

SymbolPayloads ==
    {JDict([k \in {f} |-> JList(q)]) :
        f \in {"symbols", "symbol"}, q \in SeqsUpTo(Descriptors, MaxSymbols)}

QuotePayloads ==
    {JDict(Restrict([bid |-> JInt(11), ask |-> JInt(12), timestamp |-> JInt(ts),
                     time |-> JInt(200), timestampInMs |-> JInt(300)],
                    K \cup {"bid", "ask"})) :
        ts \in {0, 100},
        K \in SUBSET {"timestamp", "time", "timestampInMs"}}

ErrorPayload == JDict([errorCode |-> JStr(<<"X">>)])

\* JSON values every receive may deliver: an envelope of each discriminant
\* with an empty payload, without a payload key, with a null payload, an
\* envelope without payloadType, an error payload, and JSON that is no object
CommonValues ==
    {Envelope(pt, EmptyDict) : pt \in PayloadTypes}
    \cup {JDict([payloadType |-> JInt(pt)]) : pt \in {2150, 2115, 2131, 2142}}
    \cup {Envelope(pt, None) : pt \in {2150, 2115, 2131, 2142}}
    \cup {JDict([payload |-> EmptyDict]), Envelope(2142, ErrorPayload), JList(<<>>)}

Texts(values) == {json_dumps(x) : x \in values} \cup {NotJson}

CommonInbound == Texts(CommonValues)

AccountsInbound ==
    Texts(CommonValues \cup {Envelope(2150, p) : p \in AccountPayloads})

SymbolsInbound ==
    Texts(CommonValues \cup {Envelope(pt, p) : pt \in {2115, 2142}, p \in SymbolPayloads})

StreamInbound ==
    Texts(CommonValues \cup {Envelope(2131, p) : p \in QuotePayloads})

(***************************************************************************)
(* State of one run of stream_prices.                                      *)
(***************************************************************************)
VARIABLES
    CLIENT_ID,      \* settings read from the environment at import
    CLIENT_SECRET,
    ACCESS_TOKEN,
    pc,             \* the await (or the entry) the coroutine is at
    ws,             \* the connection: "none", "open" or "closed"
    sent,           \* the texts passed to ws.send, in order
    nrecv,          \* number of texts ws.recv has returned
    msg,            \* local msg: the last text ws.recv returned
    account_id,     \* local account_id
    target,         \* local target: the descriptor symbol resolution chose
    symbol_id,      \* local symbol_id
    out,            \* what the run has printed, one report per situation
    result,         \* "running", "returned", "raised" or "finished"
    codec           \* a message on its way through make_msg, dumps and loads

vars == <<CLIENT_ID, CLIENT_SECRET, ACCESS_TOKEN, pc, ws, sent, nrecv, msg,
          account_id, target, symbol_id, out, result, codec>>

settings == <<CLIENT_ID, CLIENT_SECRET, ACCESS_TOKEN>>

Report(kind) == [kind |-> kind]

Unexpected(step) == [kind |-> "UnexpectedResponse", step |-> step]

Spot(bid, ask, ts) == [kind |-> "Spot", bid |-> bid, ask |-> ask, ts |-> ts]

\* no message is being encoded outside the session
CodecIdle == [stage |-> "idle"]

Init ==
    /\ codec = CodecIdle
    /\ CLIENT_ID \in {<<>>, <<"i", "d">>}
    /\ CLIENT_SECRET \in {<<>>, <<"s", "e", "c">>}
    /\ ACCESS_TOKEN \in {<<>>, <<"t", "o", "k">>}
    /\ pc = "start"
    /\ ws = "none"
    /\ sent = <<>>
    /\ nrecv = 0
    /\ msg = None
    /\ account_id = None
    /\ target = None
    /\ symbol_id = None
    /\ out = <<>>
    /\ result = "running"

\* the coroutine ends: `async with` closes the connection on the way out
Finish(how, reports) ==
    /\ pc' = "done"
    /\ result' = how
    /\ ws' = IF ws = "open" THEN "closed" ELSE ws
    /\ out' = out \o reports
    /\ UNCHANGED codec

\* Raise with the exception swallowed: the coroutine stays at its await
Raise_Swallowed == UNCHANGED <<pc, result, ws, out, codec>>

\* an exception leaves stream_prices (nothing in it catches it)
Raise == Finish("raised", <<>>)

\* Return that leaves the coroutine without leaving the `async with` block
Return_LeavesOpen(reports) ==
    /\ pc' = "done"
    /\ result' = "returned"
    /\ out' = out \o reports
    /\ UNCHANGED <<ws, codec>>

\* `return` after printing a diagnosis
Return(reports) == Finish("returned", reports)

\* the coroutine goes on to its next await
Goto(next, reports) ==
    /\ pc' = next
    /\ out' = out \o reports
    /\ UNCHANGED <<ws, result, codec>>

(***************************************************************************)
(* Entry: the credential checks and the connect.                           *)
(***************************************************************************)
\* Start without the access-token check
Start_NoTokenCheck ==
    /\ pc = "start"
    /\ UNCHANGED <<settings, sent, nrecv, msg, account_id, target, symbol_id>>
    /\ IF CLIENT_ID = <<>> \/ CLIENT_SECRET = <<>>
       THEN Return(<<Report("MissingCredentials")>>)
       ELSE \/ /\ ws' = "open"
               /\ pc' = "send2100"
               /\ out' = Append(out, Report("Connecting"))
               /\ UNCHANGED <<result, codec>>
            \/ Raise

Start ==
    /\ pc = "start"
    /\ UNCHANGED <<settings, sent, nrecv, msg, account_id, target, symbol_id>>
    /\ IF CLIENT_ID = <<>> \/ CLIENT_SECRET = <<>>
       THEN Return(<<Report("MissingCredentials")>>)
       ELSE IF ACCESS_TOKEN = <<>>
       THEN Return(<<Report("MissingAccessToken")>>)
       ELSE \/ /\ ws' = "open"
               /\ pc' = "send2100"
               /\ out' = Append(out, Report("Connecting"))
               /\ UNCHANGED <<result, codec>>
            \/ Raise          \* websockets.connect fails

\* Send that repeats the request without waiting for a response
Send_Twice(request, next, reports) ==
    /\ UNCHANGED <<settings, nrecv, msg, account_id, target, symbol_id>>
    /\ \/ /\ sent' = sent \o <<json_dumps(request), json_dumps(request)>>
          /\ Goto(next, reports)
       \/ /\ UNCHANGED sent
          /\ Raise

\* `await ws.send(json.dumps(request))`: the text goes out, or the peer has
\* closed the connection and send raises ConnectionClosed
Send(request, next, reports) ==
    /\ UNCHANGED <<settings, nrecv, msg, account_id, target, symbol_id>>
    /\ \/ /\ sent' = Append(sent, json_dumps(request))
          /\ Goto(next, reports)
       \/ /\ UNCHANGED sent
          /\ Raise

(***************************************************************************)
(* Step 1: application auth.                                               *)
(***************************************************************************)
SendAppAuth ==
    /\ pc = "send2100"
    /\ Send(application_auth_req(CLIENT_ID, CLIENT_SECRET, uuid4(Len(sent) + 1)),
            "recv2101", <<>>)

\* `data.get("payloadType") != 2101` is false
IsAppAuthRes(data) == Get(data, "payloadType") = JInt(2101)

\* RecvAppAuth with the accounts-by-token exchange skipped
RecvAppAuth_SkipsAccounts ==
    /\ pc = "recv2101"
    /\ UNCHANGED <<settings, sent, account_id, target, symbol_id>>
    /\ \E m \in CommonInbound \cup {ConnectionClosed} :
         IF m = ConnectionClosed
         THEN Raise /\ UNCHANGED <<msg, nrecv>>
         ELSE /\ msg' = m
              /\ nrecv' = nrecv + 1
              /\ LET data == json_loads(m) IN
                 IF data = JSONDecodeError \/ ~IsDict(data)
                 THEN Raise
                 ELSE IF ~(Get(data, "payloadType") = JInt(2101))
                 THEN Return(<<Unexpected("application auth")>>)
                 ELSE Goto("send2102", <<Report("ApplicationAuthOK")>>)

RecvAppAuth ==
    /\ pc = "recv2101"
    /\ UNCHANGED <<settings, sent, account_id, target, symbol_id>>
    /\ \E m \in CommonInbound \cup {ConnectionClosed} :
         IF m = ConnectionClosed
         THEN Raise /\ UNCHANGED <<msg, nrecv>>
         ELSE /\ msg' = m
              /\ nrecv' = nrecv + 1
              /\ LET data == json_loads(m) IN
                 IF data = JSONDecodeError \/ ~IsDict(data)
                 THEN Raise
                 ELSE IF ~IsAppAuthRes(data)
                 THEN Return(<<Unexpected("application auth")>>)
                 ELSE Goto("send2149", <<Report("ApplicationAuthOK")>>)

(***************************************************************************)
(* Step 2: accounts by access token, and the choice of the account.        *)
(***************************************************************************)
SendGetAccounts ==
    /\ pc = "send2149"
    /\ Send(get_accounts_by_token_req(ACCESS_TOKEN, uuid4(Len(sent) + 1)),
            "recv2150", <<>>)

\* `data.get("payloadType") not in (2150,)` is false
IsAccountsRes(data) == Get(data, "payloadType") = JInt(2150)

\* lines 106-113: the account list of a payload
extract_accounts(payload) ==
    LET accounts == Get(payload, "traderAccounts") IN
    IF accounts # None
    THEN accounts
    ELSE LET fallback == Get(payload, "ctidTraderAccount") IN
         IF IsDict(fallback) THEN JList(<<fallback>>)
         ELSE IF fallback = None THEN JList(<<>>)
         ELSE fallback

\* line 128: the account id of an account descriptor
extract_account_id(account) ==
    PyOr(Get(account, "ctidTraderAccountId"), Get(account, "accountId"))

\* NoAccounts that tests `accounts is None` instead of the truth value
NoAccounts_IsNone(accounts) == accounts = None

\* `not accounts`
NoAccounts(accounts) == ~Truthy(accounts)

\* lines 105-132, once the discriminant is accepted:
\* what the step does with the response
AccountsStep(data) ==
    LET payload == GetOr(data, "payload", EmptyDict) IN
    IF ~IsDict(payload)
    THEN [do |-> "raise"]                       \* payload.get on a non-dict
    ELSE LET accounts == extract_accounts(payload) IN
         IF NoAccounts(accounts)
         THEN [do |-> "return",
               reports |-> <<Report("AccountsResponse"), Report("NoAccountsForToken")>>]
         ELSE IF accounts.t # "list" \/ Len(accounts.v) = 0
         THEN [do |-> "raise"]                  \* accounts[0]: KeyError on a dict
         ELSE IF ~IsDict(accounts.v[1])
         THEN [do |-> "raise"]                  \* .get on a non-dict
         ELSE LET id == extract_account_id(accounts.v[1]) IN
              IF id = None
              THEN [do |-> "return",
                    reports |-> <<Report("AccountsResponse"), Report("NoAccountId")>>]
              ELSE [do |-> "go", account_id |-> id,
                    reports |-> <<Report("AccountsResponse"), Report("UsingAccount")>>]

RecvAccounts ==
    /\ pc = "recv2150"
    /\ UNCHANGED <<settings, sent, target, symbol_id>>
    /\ \E m \in AccountsInbound \cup {ConnectionClosed} :
         IF m = ConnectionClosed
         THEN Raise /\ UNCHANGED <<msg, nrecv, account_id>>
         ELSE /\ msg' = m
              /\ nrecv' = nrecv + 1
              /\ LET data == json_loads(m) IN
                 IF data = JSONDecodeError \/ ~IsDict(data)
                 THEN Raise /\ UNCHANGED account_id
                 ELSE IF ~IsAccountsRes(data)
                 THEN Return(<<Unexpected("get accounts")>>) /\ UNCHANGED account_id
                 ELSE LET step == AccountsStep(data) IN
                      CASE step.do = "raise" -> Raise /\ UNCHANGED account_id
                        [] step.do = "return" -> Return(step.reports) /\ UNCHANGED account_id
                        [] step.do = "go" -> /\ account_id' = step.account_id
                                             /\ Goto("send2102", step.reports)

(***************************************************************************)
(* Step 3: account auth.                                                   *)
(***************************************************************************)
SendAccountAuth ==
    /\ pc = "send2102"
    /\ Send(account_auth_req(account_id, ACCESS_TOKEN, uuid4(Len(sent) + 1)),
            "recv2103", <<>>)

\* IsAccountAuthRes that also lets the streaming discriminants through
IsAccountAuthRes_Lenient(data) ==
    Get(data, "payloadType") \in {JInt(2103), JInt(2131), JInt(2128), JInt(2142)}

\* `data.get("payloadType") != 2103` is false
IsAccountAuthRes(data) == Get(data, "payloadType") = JInt(2103)

RecvAccountAuth ==
    /\ pc = "recv2103"
    /\ UNCHANGED <<settings, sent, account_id, target, symbol_id>>
    /\ \E m \in CommonInbound \cup {ConnectionClosed} :
         IF m = ConnectionClosed
         THEN Raise /\ UNCHANGED <<msg, nrecv>>
         ELSE /\ msg' = m
              /\ nrecv' = nrecv + 1
              /\ LET data == json_loads(m) IN
                 IF data = JSONDecodeError \/ ~IsDict(data)
                 THEN Raise
                 ELSE IF ~IsAccountAuthRes(data)
                 THEN Return(<<Unexpected("account auth")>>)
                 ELSE Goto("send2114", <<Report("AccountAuthOK")>>)

(***************************************************************************)
(* Step 4: symbols list and the resolution of SYMBOL.                      *)
(***************************************************************************)
SendSymbolsList ==
    /\ pc = "send2114"
    /\ Send(symbols_list_req(account_id, uuid4(Len(sent) + 1)), "recv2115", <<>>)

\* `data.get("payloadType") not in (2115,)` is false
IsSymbolsRes(data) == Get(data, "payloadType") = JInt(2115)

\* `data.get("payloadType") == 2142`
IsErrorRes(data) == Get(data, "payloadType") = JInt(2142)

\* lines 158-160: the symbol list of a payload
extract_symbols(payload) ==
    LET symbols == Get(payload, "symbols") IN
    IF symbols = None THEN Get(payload, "symbol") ELSE symbols

\* line 170: `name == SYMBOL or disp == SYMBOL`
ExactMatch(s) ==
    LET name == PyOr(Get(s, "symbolName"), Get(s, "name"))
        disp == Get(s, "displayName")
    IN  name = JStr(SYMBOL) \/ disp = JStr(SYMBOL)

\* line 178: `name == SYMBOL.upper() or disp == SYMBOL.upper()`
UpperMatch(s) ==
    LET name == upper(PyOr(PyOr(Get(s, "symbolName"), Get(s, "name")), JStr(<<>>)).v)
        disp == upper(PyOr(Get(s, "displayName"), JStr(<<>>)).v)
    IN  name = upper(SYMBOL) \/ disp = upper(SYMBOL)

\* lines 167-172: the first loop, from index i on
RECURSIVE ExactSearch(_, _)
ExactSearch(symbols, i) ==
    IF i > Len(symbols) THEN None
    ELSE IF ExactMatch(symbols[i]) THEN symbols[i]
    ELSE ExactSearch(symbols, i + 1)

\* lines 175-180: the fallback loop, from index i on
RECURSIVE UpperSearch(_, _)
UpperSearch(symbols, i) ==
    IF i > Len(symbols) THEN None
    ELSE IF UpperMatch(symbols[i]) THEN symbols[i]
    ELSE UpperSearch(symbols, i + 1)

\* find_target with one pass only, the case-insensitive one
find_target_SinglePass(symbols) == UpperSearch(symbols, 1)

\* lines 166-180: target, or None
find_target(symbols) ==
    LET exact == ExactSearch(symbols, 1) IN
    IF ~Truthy(exact) THEN UpperSearch(symbols, 1) ELSE exact

\* lines 147-154: does a response of this discriminant let the step go on
\* to the extraction of the symbols
SymbolsResponseGoesOn(data) == IsSymbolsRes(data) \/ IsErrorRes(data)

\* MissingSymbolId with the check left out
MissingSymbolId_Never(id) == FALSE

\* `symbol_id is None`
MissingSymbolId(id) == id = None

\* lines 147-189: what the step does with the response
SymbolsStep(data) ==
    LET first == IF IsSymbolsRes(data) THEN <<>> ELSE <<Report("SymbolsListError")>> IN
    IF ~SymbolsResponseGoesOn(data)
    THEN [do |-> "return", target |-> None,
          reports |-> <<Unexpected("symbols list")>>]
    ELSE LET payload == GetOr(data, "payload", EmptyDict) IN
         IF ~IsDict(payload)
         THEN [do |-> "raise", target |-> None,
               reports |-> first]               \* payload.keys() on a non-dict
         ELSE LET symbols == extract_symbols(payload)
                  keys == first \o <<Report("SymbolsPayloadKeys")>>
              IN
              IF ~Truthy(symbols)
              THEN [do |-> "return", target |-> None,
                    reports |-> keys \o <<Report("NoSymbols")>>]
              ELSE LET found == find_target(symbols.v) IN
                   IF ~Truthy(found)
                   THEN [do |-> "return", target |-> found,
                         reports |-> keys \o <<Report("SymbolNotFound")>>]
                   ELSE IF MissingSymbolId(Get(found, "symbolId"))
                   THEN [do |-> "return", target |-> found,
                         reports |-> keys \o <<Report("SymbolMissingId")>>]
                   ELSE [do |-> "go", target |-> found,
                         symbol_id |-> Get(found, "symbolId"),
                         reports |-> keys \o <<Report("FoundSymbol")>>]

RecvSymbols ==
    /\ pc = "recv2115"
    /\ UNCHANGED <<settings, sent, account_id>>
    /\ \E m \in SymbolsInbound \cup {ConnectionClosed} :
         IF m = ConnectionClosed
         THEN Raise /\ UNCHANGED <<msg, nrecv, target, symbol_id>>
         ELSE /\ msg' = m
              /\ nrecv' = nrecv + 1
              /\ LET data == json_loads(m) IN
                 IF data = JSONDecodeError \/ ~IsDict(data)
                 THEN Raise /\ UNCHANGED <<target, symbol_id>>
                 ELSE LET step == SymbolsStep(data) IN
                      /\ target' = step.target
                      /\ CASE step.do = "raise" ->
                                Finish("raised", step.reports) /\ UNCHANGED symbol_id
                           [] step.do = "return" ->
                                Return(step.reports) /\ UNCHANGED symbol_id
                           [] step.do = "go" ->
                                /\ symbol_id' = step.symbol_id
                                /\ Goto("send2127", step.reports)

(***************************************************************************)
(* Step 5: subscribe.                                                      *)
(***************************************************************************)
SendSubscribe ==
    /\ pc = "send2127"
    /\ Send(subscribe_spots_req(account_id, symbol_id, uuid4(Len(sent) + 1)),
            "streaming", <<Report("SubscribeSent")>>)

(***************************************************************************)
(* Step 6: the event loop.                                                 *)
(***************************************************************************)
\* line 205: the timestamp of a spot payload
extract_ts(p) ==
    PyOr(PyOr(Get(p, "timestamp"), Get(p, "time")), Get(p, "timestampInMs"))

\* Dispatch that treats a 2142 event as the end of the loop
Dispatch_ErrorIsFatal(data) ==
    LET pt == Get(data, "payloadType") IN
    IF pt = JInt(2131)
    THEN LET p == GetOr(data, "payload", EmptyDict) IN
         IF ~IsDict(p)
         THEN [do |-> "raise"]
         ELSE [do |-> "go",
               reports |-> <<Spot(Get(p, "bid"), Get(p, "ask"),
                                  PyOr(PyOr(Get(p, "timestamp"), Get(p, "time")),
                                       Get(p, "timestampInMs")))>>]
    ELSE IF pt = JInt(2128)
    THEN [do |-> "go", reports |-> <<Report("SubscribeConfirmed")>>]
    ELSE IF pt = JInt(2142)
    THEN [do |-> "raise"]
    ELSE [do |-> "go", reports |-> <<>>]

\* lines 200-213: what one iteration does with a decoded envelope
Dispatch(data) ==
    LET pt == Get(data, "payloadType") IN
    IF pt = JInt(2131)
    THEN LET p == GetOr(data, "payload", EmptyDict) IN
         IF ~IsDict(p)
         THEN [do |-> "raise"]                  \* p.get on a non-dict
         ELSE [do |-> "go",
               reports |-> <<Spot(Get(p, "bid"), Get(p, "ask"), extract_ts(p))>>]
    ELSE IF pt = JInt(2128)
    THEN [do |-> "go", reports |-> <<Report("SubscribeConfirmed")>>]
    ELSE IF pt = JInt(2142)
    THEN [do |-> "go", reports |-> <<Report("ErrorEvent")>>]
    ELSE [do |-> "go", reports |-> <<>>]

\* OnClosed without the except clause: the closure leaves as an exception
OnClosed_NotCaught == Raise

\* lines 214-216: `except websockets.ConnectionClosed`
OnClosed == Finish("finished", <<Report("ConnectionClosed")>>)

StreamRecv ==
    /\ pc = "streaming"
    /\ UNCHANGED <<settings, sent, account_id, target, symbol_id>>
    /\ \E m \in StreamInbound \cup {ConnectionClosed} :
         IF m = ConnectionClosed
         THEN /\ OnClosed
              /\ UNCHANGED <<msg, nrecv>>
         ELSE /\ nrecv < 4 + MaxStream
              /\ msg' = m
              /\ nrecv' = nrecv + 1
              /\ LET data == json_loads(m) IN
                 IF data = JSONDecodeError \/ ~IsDict(data)
                 THEN Raise          \* not a ConnectionClosed: not caught
                 ELSE LET step == Dispatch(data) IN
                      IF step.do = "raise" THEN Raise
                      ELSE Goto("streaming", step.reports)

Next ==
    \/ Start
    \/ SendAppAuth
    \/ RecvAppAuth
    \/ SendGetAccounts
    \/ RecvAccounts
    \/ SendAccountAuth
    \/ RecvAccountAuth
    \/ SendSymbolsList
    \/ RecvSymbols
    \/ SendSubscribe
    \/ StreamRecv

Spec == Init /\ [][Next]_vars

\* the decoded value of the last text received
Data == IF msg = None THEN None ELSE json_loads(msg)

TypeOK ==
    /\ pc \in {"start", "send2100", "recv2101", "send2149", "recv2150", "send2102",
               "recv2103", "send2114", "recv2115", "send2127", "streaming", "done"}
    /\ ws \in {"none", "open", "closed"}
    /\ result \in {"running", "returned", "raised", "finished"}
    /\ nrecv \in 0..(4 + MaxStream)
    /\ Len(sent) \in 0..5

(***************************************************************************)
(* The codec.  json.dumps and json.loads at the level of JSON tokens: a     *)
(* text is a sequence of tokens, a string token carries its characters as  *)
(* they stand between the quotes (escaped), a number token its value.      *)
(* The session above stands for a text by the value it is the text of;     *)
(* the round trip below is what that representation relies on.             *)
(***************************************************************************)
Punct(c) == [k |-> c]

\* characters json.dumps writes behind a backslash
Escaped == {"\"", "\\"}

RECURSIVE Escape_OnlyQuote(_)
RECURSIVE Escape(_)

Escape_OnlyQuote(s) ==
    IF s = <<>> THEN <<>>
    ELSE (IF Head(s) = "\"" THEN <<"\\", Head(s)>> ELSE <<Head(s)>>)
         \o Escape_OnlyQuote(Tail(s))

Escape(s) ==
    IF s = <<>> THEN <<>>
    ELSE (IF Head(s) \in Escaped THEN <<"\\", Head(s)>> ELSE <<Head(s)>>)
         \o Escape(Tail(s))

RECURSIVE Unescape(_)
Unescape(s) ==
    IF s = <<>> THEN <<>>
    ELSE IF Head(s) = "\\" /\ Len(s) > 1
         THEN <<s[2]>> \o Unescape(Tail(Tail(s)))
         ELSE <<Head(s)>> \o Unescape(Tail(s))

RECURSIVE dumps(_)
RECURSIVE dumps_items(_)
RECURSIVE dumps_members(_, _)

\* the elements of a list, separated by commas
dumps_items(q) ==
    IF q = <<>> THEN <<>>
    ELSE dumps(Head(q))
         \o (IF Tail(q) = <<>> THEN <<>> ELSE <<Punct(",")>> \o dumps_items(Tail(q)))

\* the members of a dict, key : value, separated by commas
dumps_members(d, K) ==
    IF K = {} THEN <<>>
    ELSE LET key == CHOOSE x \in K : TRUE
         IN  <<[k |-> "key", name |-> key], Punct(":")>> \o dumps(d[key])
             \o (IF K = {key} THEN <<>>
                 ELSE <<Punct(",")>> \o dumps_members(d, K \ {key}))

dumps(x) ==
    CASE x.t = "None" -> <<Punct("null")>>
      [] x.t = "bool" -> <<Punct(IF x.v THEN "true" ELSE "false")>>
      [] x.t = "int"  -> <<[k |-> "num", n |-> x.v]>>
      [] x.t = "str"  -> <<[k |-> "str", s |-> Escape(x.v)]>>
      [] x.t = "list" -> <<Punct("[")>> \o dumps_items(x.v) \o <<Punct("]")>>
      [] x.t = "dict" -> <<Punct("{")>> \o dumps_members(x.v, DOMAIN x.v)
                         \o <<Punct("}")>>

\* a parse that failed
Bad == [ok |-> FALSE]

Good(value, next) == [ok |-> TRUE, value |-> value, next |-> next]

At(toks, i) == IF i \in 1..Len(toks) THEN toks[i].k ELSE "eof"

\* dict[key] = value: a repeated key keeps the later value
Store(d, key, value) ==
    [x \in DOMAIN d \cup {key} |-> IF x = key THEN value ELSE d[x]]

RECURSIVE parse_value(_, _)
RECURSIVE parse_items(_, _, _)
RECURSIVE parse_members(_, _, _)

parse_items(toks, i, acc) ==
    LET e == parse_value(toks, i)
    IN  IF ~e.ok THEN Bad
        ELSE IF At(toks, e.next) = ","
             THEN parse_items(toks, e.next + 1, Append(acc, e.value))
        ELSE IF At(toks, e.next) = "]"
             THEN Good(JList(Append(acc, e.value)), e.next + 1)
        ELSE Bad

parse_members(toks, i, acc) ==
    IF At(toks, i) # "key" \/ At(toks, i + 1) # ":" THEN Bad
    ELSE LET e == parse_value(toks, i + 2)
         IN  IF ~e.ok THEN Bad
             ELSE IF At(toks, e.next) = ","
                  THEN parse_members(toks, e.next + 1,
                                     Store(acc, toks[i].name, e.value))
             ELSE IF At(toks, e.next) = "}"
                  THEN Good(JDict(Store(acc, toks[i].name, e.value)), e.next + 1)
             ELSE Bad

parse_value(toks, i) ==
    LET c == At(toks, i)
    IN  CASE c = "null"  -> Good(None, i + 1)
          [] c = "true"  -> Good(JBool(TRUE), i + 1)
          [] c = "false" -> Good(JBool(FALSE), i + 1)
          [] c = "num"   -> Good(JInt(toks[i].n), i + 1)
          [] c = "str"   -> Good(JStr(Unescape(toks[i].s)), i + 1)
          [] c = "["     -> IF At(toks, i + 1) = "]" THEN Good(JList(<<>>), i + 2)
                            ELSE parse_items(toks, i + 1, <<>>)
          [] c = "{"     -> IF At(toks, i + 1) = "}" THEN Good(EmptyDict, i + 2)
                            ELSE parse_members(toks, i + 1, EmptyMap)
          [] OTHER       -> Bad

\* json.loads: the whole text must be one value
loads(toks) ==
    LET e == parse_value(toks, 1)
    IN  IF e.ok /\ e.next = Len(toks) + 1 THEN e.value ELSE JSONDecodeError

(***************************************************************************)
(* Bounded inputs of make_msg: the payloads the five builders pass, and    *)
(* mappings over every kind of JSON value, nested up to MaxNesting.        *)
(***************************************************************************)
MaxNesting == 2

CodecScalars ==
    {None, JBool(TRUE), JBool(FALSE), JInt(0), JInt(-5), JInt(2142),
     JStr(<<>>), JStr(<<"a", "\"", "b">>), JStr(<<"\\", "n">>), JStr(SYMBOL)}

\* what a list or a dict of the next depth is built from
Few == {None, JInt(-5), JStr(<<"\\", "n">>)}

RECURSIVE CodecValues(_)
CodecValues(depth) ==
    IF depth = 0 THEN CodecScalars
    ELSE LET inner == CodecValues(depth - 1)
             nested == inner \ CodecScalars
         IN  inner
             \cup {JList(q) : q \in SeqsUpTo(Few, 2)}
             \cup {JList(<<x>>) : x \in nested}
             \cup {JDict(Restrict([symbolName |-> x, symbolId |-> JInt(1)], K)) :
                       x \in Few \cup nested,
                       K \in SUBSET {"symbolName", "symbolId"}}

\* the messages the five builders make, for some arguments
BuilderMessages ==
    {application_auth_req(<<"i", "d">>, <<"s", "\\", "\"">>, uuid4(1)),
     get_accounts_by_token_req(<<"t", "\"">>, uuid4(2)),
     account_auth_req(JInt(8), <<"t">>, uuid4(3)),
     symbols_list_req(JInt(0), uuid4(4)),
     subscribe_spots_req(JInt(8), JInt(2), uuid4(5))}

CodecPayloads ==
    {Get(m, "payload").v : m \in BuilderMessages}
    \cup {Restrict([bid |-> x, symbol |-> y], K) :
              x \in CodecScalars, y \in CodecValues(MaxNesting) \ CodecScalars,
              K \in SUBSET {"bid", "symbol"}}

CodecMsgIds == {None, JStr(<<>>), JStr(<<"m", "\\", "1">>)}

CodecInputs ==
    [payload_type : {2100, 2131}, payload : CodecPayloads,
     client_msg_id : CodecMsgIds, uuid : {uuid4(1)}]

\* the message before anything has been built from the inputs
InitCodec ==
    /\ CLIENT_ID = <<"i", "d">>
    /\ CLIENT_SECRET = <<"s", "e", "c">>
    /\ ACCESS_TOKEN = <<"t", "o", "k">>
    /\ pc = "start" /\ ws = "none" /\ sent = <<>> /\ nrecv = 0 /\ msg = None
    /\ account_id = None /\ target = None /\ symbol_id = None
    /\ out = <<>> /\ result = "running"
    /\ \E in \in CodecInputs : codec = [stage |-> "input", in |-> in]

session == <<settings, pc, ws, sent, nrecv, msg, account_id, target,
             symbol_id, out, result>>

\* message = make_msg(payload_type, payload, client_msg_id)
CodecMake ==
    /\ codec.stage = "input"
    /\ codec' = [stage |-> "built", in |-> codec.in,
                 message |-> make_msg(codec.in.payload_type, codec.in.payload,
                                      codec.in.client_msg_id, codec.in.uuid)]
    /\ UNCHANGED session

\* text = json.dumps(message)
CodecDumps ==
    /\ codec.stage = "built"
    /\ codec' = [stage |-> "dumped", in |-> codec.in, message |-> codec.message,
                 text |-> dumps(codec.message)]
    /\ UNCHANGED session

\* data = json.loads(text)
CodecLoads ==
    /\ codec.stage = "dumped"
    /\ codec' = [stage |-> "loaded", in |-> codec.in, message |-> codec.message,
                 text |-> codec.text, data |-> loads(codec.text)]
    /\ UNCHANGED session

NextCodec ==
    \/ CodecMake
    \/ CodecDumps
    \/ CodecLoads

SpecCodec == InitCodec /\ [][NextCodec]_vars

(***************************************************************************)
(* Properties.                                                             *)
(***************************************************************************)
\* the discriminants of the requests sent so far
SentTypes == [i \in 1..Len(sent) |-> Get(json_loads(sent[i]), "payloadType").v]

RequestOrder == <<2100, 2149, 2102, 2114, 2127>>

\* the last report printed
LastReport == out[Len(out)]

\* payload of the last envelope received (`data.get("payload", {})`)
DataPayload == GetOr(Data, "payload", EmptyDict)

\* C1: the requests on the transport are always a prefix of
\* 2100, 2149, 2102, 2114, 2127: no request is skipped, repeated or reordered.
Thm_C1_RequestOrder ==
    /\ Len(sent) <= Len(RequestOrder)
    /\ SentTypes = SubSeq(RequestOrder, 1, Len(sent))

Wit_C1_AllFiveSent == SentTypes = RequestOrder

ExpectedAt == <<2101, 2150, 2103>>

StepName == <<"application auth", "get accounts", "account auth">>

\* C2: at each of the three awaited authentication steps, a decoded envelope
\* whose discriminant is not the expected one (2101, 2150, 2103) ends the
\* session with the unexpected-response report of that step, and the requests
\* sent stay those sent before it.
Thm_C2_UnexpectedAborts ==
    \A k \in 1..3 :
        (nrecv = k /\ IsDict(Data) /\ Get(Data, "payloadType") # JInt(ExpectedAt[k]))
        => /\ pc = "done"
           /\ result = "returned"
           /\ ws = "closed"
           /\ LastReport = Unexpected(StepName[k])
           /\ Len(sent) = k

Wit_C2_StreamingTypeAtAccountAuth ==
    /\ nrecv = 3
    /\ Data = Envelope(2131, EmptyDict)
    /\ LastReport = Unexpected("account auth")

\* C3 as claimed: a 2142 response to the symbols-list request always ends the
\* session there: nothing is resolved and no subscribe request is prepared or
\* sent.
Cex_C3_ErrorResponseIsFatal ==
    (nrecv = 4 /\ IsDict(Data) /\ IsErrorRes(Data))
    => /\ pc = "done"
       /\ Len(sent) = 4
       /\ symbol_id = None

\* the 2150 payload carries no account list under either name, or an empty one
EmptyAccountList(p) ==
    \/ DOMAIN p.v \cap {"traderAccounts", "ctidTraderAccount"} = {}
    \/ /\ "traderAccounts" \in DOMAIN p.v
       /\ p.v["traderAccounts"] = JList(<<>>)
    \/ /\ "traderAccounts" \notin DOMAIN p.v
       /\ "ctidTraderAccount" \in DOMAIN p.v
       /\ p.v["ctidTraderAccount"] = JList(<<>>)

\* C4: a 2150 response with an empty account list ends the session with the
\* no-accounts-for-token diagnosis, and only 2100 and 2149 were ever sent.
Thm_C4_NoAccountsAborts ==
    (nrecv = 2 /\ IsDict(Data) /\ Get(Data, "payloadType") = JInt(2150)
       /\ IsDict(DataPayload) /\ EmptyAccountList(DataPayload))
    => /\ pc = "done"
       /\ result = "returned"
       /\ LastReport = Report("NoAccountsForToken")
       /\ SentTypes = <<2100, 2149>>

Wit_C4_EmptyListUnderFallbackName ==
    /\ nrecv = 2
    /\ Data = Envelope(2150, JDict([ctidTraderAccount |-> JList(<<>>)]))
    /\ result = "returned"

\* C5: during the handshake requests and responses alternate: at most one
\* request is unanswered, no response is consumed before its request, and
\* the subscribe request goes out after exactly four inbound messages.
Thm_C5_Alternation ==
    /\ Len(sent) <= nrecv + 1
    /\ Len(sent) < 5 => nrecv <= Len(sent)
    /\ pc = "send2127" => (nrecv = 4 /\ Len(sent) = 4)
    /\ Len(sent) = 5 => nrecv >= 4

Wit_C5_SubscribeAfterFour == Len(sent) = 5 /\ nrecv = 4

\* a decoded envelope with an integer discriminant and a mapping payload
WellFormedEnvelope(d) ==
    /\ IsDict(d)
    /\ Get(d, "payloadType").t = "int"
    /\ IsDict(GetOr(d, "payload", EmptyDict))

StreamReportKind(pt) ==
    CASE pt = 2131 -> "Spot"
      [] pt = 2128 -> "SubscribeConfirmed"
      [] pt = 2142 -> "ErrorEvent"

\* C6: in the streaming loop every well-formed envelope of discriminant 2131,
\* 2128 or 2142 appends exactly one report of its kind to what was printed
\* before, any other discriminant appends nothing, and in every case the loop
\* stays in the streaming state to receive the next message.
Thm_C6_OneReportPerEvent ==
    [][ (pc = "streaming" /\ nrecv' = nrecv + 1 /\ WellFormedEnvelope(Data'))
        => /\ pc' = "streaming"
           /\ result' = "running"
           /\ ws' = "open"
           /\ LET pt == Get(Data', "payloadType").v IN
              IF pt \in {2131, 2128, 2142}
              THEN /\ Len(out') = Len(out) + 1
                   /\ SubSeq(out', 1, Len(out)) = out
                   /\ out'[Len(out')].kind = StreamReportKind(pt)
              ELSE out' = out ]_vars

\* the reports printed since the subscribe request
StreamReports ==
    LET i == CHOOSE j \in 1..Len(out) : out[j] = Report("SubscribeSent")
    IN  SubSeq(out, i + 1, Len(out))

\* a quote, an unknown discriminant and a remote error have been received:
\* two reports, and the loop is still running
Wit_C6_QuoteUnknownError ==
    /\ pc = "streaming"
    /\ nrecv = 7
    /\ Data = Envelope(2142, ErrorPayload)
    /\ Len(StreamReports) = 2
    /\ StreamReports[1].kind = "Spot"
    /\ StreamReports[2] = Report("ErrorEvent")

\* the loop has ended after the subscribe request
StreamEnded == pc = "done" /\ Len(sent) = 5

\* C7 as claimed: whatever was received, the loop ends only by the closure of
\* the connection, as a normal termination with the connection-closed report.
Cex_C7_OnlyClosureEndsLoop ==
    StreamEnded => (result = "finished" /\ LastReport = Report("ConnectionClosed"))

\* what an iteration can decode and dispatch: a JSON object whose payload,
\* when it is a 2131 event, is a mapping (or absent)
Dispatchable(d) ==
    /\ IsDict(d)
    /\ Get(d, "payloadType") = JInt(2131) => IsDict(GetOr(d, "payload", EmptyDict))

\* C7 amended: the loop ends only (a) when the closure of the connection is
\* signalled: a normal end with one connection-closed report, no message
\* consumed, or (b) by an uncaught error on a message that is not JSON, not a
\* JSON object, or a 2131 event whose payload is no mapping: nothing is
\* reported.  No dispatchable message of any discriminant ends the loop, and
\* nothing is received once the loop has ended.
Thm_C7_LoopEnds ==
    /\ [][ (pc = "streaming" /\ pc' # "streaming")
           => \/ /\ nrecv' = nrecv
                 /\ result' = "finished"
                 /\ out' = Append(out, Report("ConnectionClosed"))
                 /\ ws' = "closed"
              \/ /\ nrecv' = nrecv + 1
                 /\ ~Dispatchable(Data')
                 /\ result' = "raised"
                 /\ out' = out ]_vars
    /\ [][ (pc = "streaming" /\ nrecv' = nrecv + 1 /\ Dispatchable(Data'))
           => pc' = "streaming" ]_vars
    /\ [][ pc = "done" => nrecv' = nrecv ]_vars
    /\ [](result = "finished"
          => Cardinality({i \in 1..Len(out) : out[i] = Report("ConnectionClosed")}) = 1)

Wit_C7_ClosedAfterEvents ==
    /\ StreamEnded
    /\ nrecv = 6
    /\ result = "finished"
    /\ LastReport = Report("ConnectionClosed")

NameFields == {"symbolName", "name", "displayName"}

\* a name field of descriptor d is exactly SYMBOL
ExactlyNamed(d) == \E k \in DOMAIN d.v \cap NameFields : d.v[k] = JStr(SYMBOL)

\* a name field of descriptor d is SYMBOL up to letter case
LooselyNamed(d) == \E k \in DOMAIN d.v \cap NameFields : upper(d.v[k].v) = upper(SYMBOL)

\* the symbol list the last payload carries, under either field name
ReceivedSymbols ==
    LET p == DataPayload IN
    IF "symbols" \in DOMAIN p.v THEN p.v["symbols"].v
    ELSE IF "symbol" \in DOMAIN p.v THEN p.v["symbol"].v
    ELSE <<>>

Min(S) == CHOOSE i \in S : \A j \in S : i <= j

\* the fourth message is a 2115 response with a non-empty symbol list
ResolutionDone ==
    /\ nrecv = 4
    /\ IsDict(Data)
    /\ Get(Data, "payloadType") = JInt(2115)
    /\ IsDict(DataPayload)
    /\ Len(ReceivedSymbols) > 0

\* C8: symbol resolution chooses the first descriptor named exactly SYMBOL
\* if there is one, wherever the case-insensitive matches are; otherwise the
\* first descriptor named SYMBOL up to case; otherwise nothing, and the
\* session ends with the not-found report.
Thm_C8_ExactBeforeCaseInsensitive ==
    ResolutionDone =>
        LET L == ReceivedSymbols
            E == {i \in 1..Len(L) : ExactlyNamed(L[i])}
            U == {i \in 1..Len(L) : LooselyNamed(L[i])}
        IN  IF E # {} THEN target = L[Min(E)]
            ELSE IF U # {} THEN target = L[Min(U)]
            ELSE /\ target = None
                 /\ pc = "done"
                 /\ LastReport = Report("SymbolNotFound")

Wit_C8_LaterExactWins ==
    /\ ResolutionDone
    /\ Len(ReceivedSymbols) = 2
    /\ LooselyNamed(ReceivedSymbols[1])
    /\ ~ExactlyNamed(ReceivedSymbols[1])
    /\ ExactlyNamed(ReceivedSymbols[2])
    /\ target = ReceivedSymbols[2]
    /\ ReceivedSymbols[1] # ReceivedSymbols[2]

\* the session returned after the symbols-list response with this report
AbortedBeforeSubscribe(kind) ==
    /\ pc = "done"
    /\ result = "returned"
    /\ LastReport = Report(kind)
    /\ Len(sent) = 4

\* C9: the subscribe request is sent only when the received symbol list is
\* non-empty, one of its descriptors matched SYMBOL and that descriptor has a
\* symbolId; an empty list, a list without a match and a match without
\* symbolId each end the session before the subscribe request, the last two
\* with different reports.
Thm_C9_SubscribeNeedsUsableSymbol ==
    /\ Len(sent) = 5
       => /\ target # None
          /\ ExactlyNamed(target) \/ LooselyNamed(target)
          /\ "symbolId" \in DOMAIN target.v
          /\ symbol_id = target.v["symbolId"]
    /\ (Len(sent) = 5 /\ nrecv = 4)
       => \E i \in 1..Len(ReceivedSymbols) : ReceivedSymbols[i] = target
    /\ (nrecv = 4 /\ IsDict(Data) /\ IsDict(DataPayload)
          /\ Get(Data, "payloadType") \in {JInt(2115), JInt(2142)})
       => LET L == ReceivedSymbols IN
          /\ Len(L) = 0 => AbortedBeforeSubscribe("NoSymbols")
          /\ (Len(L) > 0 /\ \A i \in 1..Len(L) : ~ExactlyNamed(L[i]) /\ ~LooselyNamed(L[i]))
             => AbortedBeforeSubscribe("SymbolNotFound")
          /\ (target # None /\ "symbolId" \notin DOMAIN target.v)
             => AbortedBeforeSubscribe("SymbolMissingId")

Wit_C9_MatchWithoutSymbolId ==
    /\ nrecv = 4
    /\ target = JDict([name |-> JStr(SYMBOL)])
    /\ LastReport = Report("SymbolMissingId")
    /\ Len(sent) = 4

AccountIdFields == {"ctidTraderAccountId", "accountId"}

\* a non-empty account list whose first entry has an account id
UsableAccounts(p) ==
    \E f \in DOMAIN p.v \cap {"traderAccounts", "ctidTraderAccount"} :
        /\ p.v[f].t = "list"
        /\ Len(p.v[f].v) > 0
        /\ DOMAIN p.v[f].v[1].v \cap AccountIdFields # {}

\* a symbol list that has SYMBOL, every descriptor of that name with a symbolId
UsableSymbols ==
    LET L == ReceivedSymbols IN
    /\ \E i \in 1..Len(L) : ExactlyNamed(L[i]) \/ LooselyNamed(L[i])
    /\ \A i \in 1..Len(L) :
          (ExactlyNamed(L[i]) \/ LooselyNamed(L[i])) => "symbolId" \in DOMAIN L[i].v

\* the last message received is the expected answer of its step, with a
\* usable payload
ExpectedAnswer ==
    /\ IsDict(Data)
    /\ CASE nrecv = 1 -> Get(Data, "payloadType") = JInt(2101)
         [] nrecv = 2 -> /\ Get(Data, "payloadType") = JInt(2150)
                         /\ IsDict(DataPayload)
                         /\ UsableAccounts(DataPayload)
         [] nrecv = 3 -> Get(Data, "payloadType") = JInt(2103)
         [] nrecv = 4 -> /\ Get(Data, "payloadType") = JInt(2115)
                         /\ IsDict(DataPayload)
                         /\ UsableSymbols
         [] OTHER -> FALSE

\* C10 as claimed: a session whose every request is answered by the expected
\* discriminant with a usable payload does not abort: it never returns
\* before the streaming loop on such an answer.
Cex_C10_ExpectedAnswersNeverAbort ==
    (nrecv \in 1..4 /\ ExpectedAnswer) => result # "returned"

\* payload of the i-th request sent
SentPayload(i) == Get(json_loads(sent[i]), "payload")

\* the first entry of the account list the last payload carries, whichever
\* field name and shape delivers it
ReceivedFirstAccount ==
    LET p == DataPayload
        f == CHOOSE g \in DOMAIN p.v \cap {"traderAccounts", "ctidTraderAccount"} : TRUE
    IN  IF p.v[f].t = "list" THEN p.v[f].v[1] ELSE p.v[f]

\* C11: account_id and symbol_id are written at most once and never change;
\* the 2102, 2114 and 2127 requests all carry account_id, which is an id of
\* the first entry of the received account list, and the 2127 request carries
\* the symbolId of the descriptor symbol resolution chose.
Thm_C11_IdsWrittenOnce ==
    /\ [][ /\ account_id # None => account_id' = account_id
           /\ symbol_id # None => symbol_id' = symbol_id ]_vars
    /\ [](/\ \A i \in 3..Len(sent) :
                /\ account_id # None
                /\ Get(SentPayload(i), "ctidTraderAccountId") = account_id
          /\ Len(sent) = 5
             => /\ symbol_id # None
                /\ Get(SentPayload(5), "symbolId") = symbol_id
                /\ target # None
                /\ symbol_id = Get(target, "symbolId")
          /\ (nrecv = 2 /\ account_id # None)
             => \E k \in DOMAIN ReceivedFirstAccount.v \cap {"ctidTraderAccountId", "accountId"} :
                   account_id = ReceivedFirstAccount.v[k])

Wit_C11_ThreeRequestsOneAccount ==
    /\ Len(sent) = 5
    /\ account_id = JInt(8)
    /\ symbol_id = JInt(2)
    /\ \A i \in 3..5 : Get(SentPayload(i), "ctidTraderAccountId") = JInt(8)
    /\ Get(SentPayload(5), "symbolId") = JInt(2)

\* the account list is delivered by field f, as a list that starts with entry
\* e or as the single object e
DeliveredAs(p, f, e) ==
    /\ f \in DOMAIN p.v
    /\ \/ p.v[f] = e
       \/ /\ p.v[f].t = "list"
          /\ Len(p.v[f].v) > 0
          /\ p.v[f].v[1] = e

\* the 2150 response just received has a mapping payload
AccountsReceived ==
    /\ nrecv = 2
    /\ IsDict(Data)
    /\ Get(Data, "payloadType") = JInt(2150)
    /\ IsDict(DataPayload)

\* C12 as claimed: whichever of traderAccounts / ctidTraderAccount delivers the
\* account list, as a list or as a single object, the session goes on with
\* the same first account (here: one whose ctidTraderAccountId is 7).
Cex_C12_FieldAndShapeTolerated ==
    \A f \in {"traderAccounts", "ctidTraderAccount"} :
        (AccountsReceived
           /\ \E e \in AccountEntries :
                 /\ DeliveredAs(DataPayload, f, e)
                 /\ Get(e, "ctidTraderAccountId") = JInt(7))
        => account_id = JInt(7)

\* an account list (list shape) with a first entry was received
AccountListReceived ==
    /\ AccountsReceived
    /\ \E f \in DOMAIN DataPayload.v \cap {"traderAccounts", "ctidTraderAccount"} :
          DataPayload.v[f].t = "list" /\ Len(DataPayload.v[f].v) > 0

\* C13 as claimed: with a non-empty account list, the session aborts at the
\* extraction exactly when the first entry has neither id field; otherwise it
\* continues with ctidTraderAccountId if that field is present (0 included)
\* and with accountId if not.
Cex_C13_IdByPresence ==
    AccountListReceived =>
        LET e == ReceivedFirstAccount IN
        IF "ctidTraderAccountId" \in DOMAIN e.v
        THEN account_id = e.v["ctidTraderAccountId"]
        ELSE IF "accountId" \in DOMAIN e.v
        THEN account_id = e.v["accountId"]
        ELSE /\ account_id = None
             /\ pc = "done"
             /\ LastReport = Report("NoAccountId")

\* a 2131 event with a mapping payload has just been dispatched
QuoteDispatched ==
    /\ pc = "streaming"
    /\ nrecv > 4
    /\ IsDict(Data)
    /\ Get(Data, "payloadType") = JInt(2131)
    /\ IsDict(DataPayload)

\* C14 as claimed: the timestamp reported for a quote is the value of the
\* first of timestamp, time, timestampInMs that is present in the payload,
\* whatever the value (0 included).
Cex_C14_TimestampByPresence ==
    QuoteDispatched =>
        LET p == DataPayload.v IN
        /\ LastReport.kind = "Spot"
        /\ LastReport.ts = IF "timestamp" \in DOMAIN p THEN p["timestamp"]
                           ELSE IF "time" \in DOMAIN p THEN p["time"]
                           ELSE IF "timestampInMs" \in DOMAIN p THEN p["timestampInMs"]
                           ELSE None

\* the last handshake message received is no valid envelope: not JSON, not a
\* JSON object, or an object without a discriminant
MalformedInHandshake ==
    /\ nrecv \in 1..4
    /\ \/ Data = JSONDecodeError
       \/ ~IsDict(Data)
       \/ "payloadType" \notin DOMAIN Data.v

\* C15: a handshake message that does not parse as a valid envelope ends the
\* session at that receive: the connection is closed, no request follows the
\* one it answered, and nothing is received in its place.
Thm_C15_MalformedIsFatal ==
    /\ [](MalformedInHandshake
          => /\ pc = "done"
             /\ result \in {"raised", "returned"}
             /\ ws = "closed"
             /\ Len(sent) = nrecv)
    /\ [][ pc = "done" => (nrecv' = nrecv /\ sent' = sent /\ msg' = msg) ]_vars

Wit_C15_NotJsonAtAccountAuth ==
    /\ nrecv = 3
    /\ msg = NotJson
    /\ result = "raised"
    /\ Len(sent) = 3

\* C17: a session that was connected and has ended, however it ended (a
\* return at a handshake step, an exception from a closed transport or from
\* decoding, the end of the streaming loop), has its connection closed; the
\* connection is open only while the session runs, and an ended session
\* sends and receives nothing.
Thm_C17_EndedMeansClosed ==
    /\ [](/\ pc = "done" <=> result # "running"
          /\ (pc = "done" /\ Len(out) > 0 /\ out[1] = Report("Connecting")) => ws = "closed"
          /\ pc = "done" => ws # "open"
          /\ ws = "open" => result = "running"
          /\ (Len(sent) > 0 \/ nrecv > 0) => ws # "none")
    /\ [][ ws # "open" => (sent' = sent /\ nrecv' = nrecv) ]_vars
    /\ [][ ws = "closed" => ws' = "closed" ]_vars

Wit_C17_ClosedAfterDecodeError ==
    /\ pc = "done"
    /\ ws = "closed"
    /\ result = "raised"
    /\ nrecv = 5
    /\ msg = NotJson

\* C18: with an empty client id, client secret or access token the run
\* returns with the missing-setting report and never opens a connection:
\* nothing is sent and nothing is received.
Thm_C18_MissingSettingsNoConnection ==
    (CLIENT_ID = <<>> \/ CLIENT_SECRET = <<>> \/ ACCESS_TOKEN = <<>>)
    => /\ ws = "none"
       /\ sent = <<>>
       /\ nrecv = 0
       /\ pc \in {"start", "done"}
       /\ pc = "done"
          => /\ result = "returned"
             /\ out = IF CLIENT_ID = <<>> \/ CLIENT_SECRET = <<>>
                      THEN <<Report("MissingCredentials")>>
                      ELSE <<Report("MissingAccessToken")>>

Wit_C18_TokenMissing ==
    /\ CLIENT_ID # <<>>
    /\ CLIENT_SECRET # <<>>
    /\ ACCESS_TOKEN = <<>>
    /\ pc = "done"
    /\ out = <<Report("MissingAccessToken")>>

\* C16: decoding the encoded form of a message built by make_msg gives back
\* the message: the payloadType that was passed, a payload equal to the
\* mapping that was passed, and the clientMsgId of the built message, which
\* is the supplied one when one was supplied.
Thm_C16_RoundTrip ==
    codec.stage = "loaded" =>
        /\ IsDict(codec.data)
        /\ Get(codec.data, "payloadType") = JInt(codec.in.payload_type)
        /\ Get(codec.data, "payload") = JDict(codec.in.payload)
        /\ Get(codec.data, "clientMsgId") = Get(codec.message, "clientMsgId")
        /\ Truthy(codec.in.client_msg_id) =>
               Get(codec.data, "clientMsgId") = codec.in.client_msg_id
        /\ DOMAIN codec.data.v = {"clientMsgId", "payloadType", "payload"}

\* a message with a generated id, whose payload nests a list in a dict and
\* holds a quote and a backslash, has been encoded and decoded
Wit_C16_NestedPayloadDecoded ==
    /\ codec.stage = "loaded"
    /\ codec.in.client_msg_id = None
    /\ DOMAIN codec.in.payload = {"bid", "symbol"}
    /\ codec.in.payload.bid = JStr(<<"a", "\"", "b">>)
    /\ codec.in.payload.symbol =
           JDict([symbolName |-> JList(<<None, JStr(<<"\\", "n">>)>>),
                  symbolId |-> JInt(1)])
    /\ Len(codec.text) > 20
    /\ codec.data = codec.message

====
